---- MODULE Spec2Model ----
(***************************************************************************)
(* drone-gcloud-helm: the plugin's Exec (cluster session setup, Tiller     *)
(* initialization with readiness polling, fail-fast action pipeline).      *)
(*                                                                         *)
(* The repository holds several revisions of plugin.go.  Each revision is  *)
(* a "variant" of the program; the variable `variant` is fixed by Init and *)
(* every operator that models code takes the behaviour of that revision:   *)
(*   plugin     src/plugin.go                                              *)
(*   part_002   src/unnamed/part_002                                       *)
(*   part_003a  src/unnamed/part_003, lines 1-357   (go-version, template) *)
(*   part_003b  src/unnamed/part_003, lines 358-806 (logrus trace)         *)
(*   part_004   src/unnamed/part_004               (helm 3, sops secrets)  *)
(*   part_005   src/unnamed/part_005               (no helm init)          *)
(*   part_006   src/unnamed/part_006                                       *)
(*                                                                         *)
(* A subprocess (exec.Cmd.Run) takes two steps: the child is started       *)
(* (`running` holds its command) and the child exits with the status the   *)
(* environment chooses; the caller is blocked in between.                  *)
(***************************************************************************)
EXTENDS Integers, Sequences, FiniteSets, TLC

VARIABLES
    variant,    \* the revision of plugin.go that runs
    p,          \* the Plugin configuration (value receiver of Exec)
    pc,         \* control location of Exec
    sub,        \* position inside setupProject / inside the current handler
    idx,        \* index of the current element of p.Actions (1-based)
    running,    \* the child process Exec is blocked on, or NoCmd
    err,        \* the error value most recently produced (Go's err)
    result,     \* what Exec returned: none yet / ok / error / panic
    authFile,   \* setupProject's authFile local
    tmpAuth,    \* the temporary auth-key file exists on disk
    credEnv,    \* the GOOGLE_APPLICATION_CREDENTIALS environment variable
    ver,        \* helmInit's ver (the result of fetchHelmVersions)
    option,     \* the mode flag helmInit chose ("" plain init, "none" before)
    i,          \* pollTiller's loop counter: readiness checks completed
    executed,   \* the action names whose handler Exec has invoked, in order
    tempFiles,  \* deployPackage's tempFiles local (part_004)
    disk,       \* the decrypted secret files that exist on disk
    nsExists,   \* whether the cluster has the namespace of the configuration
    logged,     \* the command lines written to the log so far
    lastExit,   \* how the command that exited last has ended
    prog,       \* the entry point that runs: Exec, a main, or preparePlugin
    env,        \* the configuration as the environment gave it
    missing,    \* the required environment variables that are not set
    exit        \* the exit status of the process, "none" while it runs

\* the state of deployPackage's secret handling
deployVars == <<tempFiles, disk, nsExists>>

\* the state of the process around Exec
mainVars == <<prog, env, missing, exit>>

vars == <<variant, p, pc, sub, idx, running, err, result, authFile, tmpAuth,
          credEnv, ver, option, i, executed, tempFiles, disk, nsExists, logged, lastExit,
          prog, env,
          missing, exit>>

----------------------------------------------------------------------------
(* Bounds of the model. *)

\* longest action list explored
MaxActions == 2
\* most elements strings.Split yields for the output of `helm version`
MaxLines == 2
\* largest minor version number a helm client or Tiller reports
MaxMinor == 10
\* most secret files configured
MaxSecrets == 2

----------------------------------------------------------------------------
(* Constants of the program. *)

\* the names of the binaries (the earlier revisions give the same binaries
\* by their absolute path under /opt/google-cloud-sdk/bin)
gcloudBin == "gcloud"
gsutilBin == "gsutil"
kubectlBin == "kubectl"
helmBin == "helm"

lintPkg == "lint"
createPkg == "create"
pushPkg == "push"
pullPkg == "pull"
deployPkg == "deploy"
testPkg == "test"
dependencyPkg == "dep"

updateRetries == 10

Variants == {"plugin", "part_002", "part_003a", "part_003b", "part_004",
             "part_005", "part_006"}

\* revisions whose setup condition and setupProject use the auth key
KeyBased == {"plugin", "part_002", "part_003b"}
\* revisions whose Exec calls helmInit after setupProject
WithHelmInit == {"plugin", "part_002", "part_003a", "part_003b", "part_006"}

\* the fields of the Plugin struct of each revision
HasRegion(v) == v \in {"part_003a", "part_004", "part_005"}
HasKeyPath(v) == v # "part_003b"

\* the binaries the image installs (Dockerfile): any other path cannot be
\* executed, and exec.Cmd.Run fails for it
InstalledBins == {gcloudBin, gsutilBin, kubectlBin, helmBin, "/bin/sh"}

----------------------------------------------------------------------------
(* Values. *)

NoCmd == [bin |-> "", args |-> <<>>]
Cmd(bin, args) == [bin |-> bin, args |-> args]

\* An error value.  `stage` and `pos` record which call produced it (the
\* identity of the Go error value); msg is its text ("" for the bare error
\* of exec.Cmd.Run).
NoErr == [msg |-> "", stage |-> "", pos |-> 0]
Error(msg, stage, pos) == [msg |-> msg, stage |-> stage, pos |-> pos]

NoResult == [kind |-> "none", err |-> NoErr]
Ok == [kind |-> "ok", err |-> NoErr]
Failed(e) == [kind |-> "error", err |-> e]
Panic == [kind |-> "panic", err |-> NoErr]

NoVer == [client |-> <<>>, server |-> <<>>]

\* a debug output that would show the key in place of the command line
traceKey(cmd) == <<p.AuthKey>>

\* the line a command gives in the log: its arguments, the program first
\* (strings.Join(cmd.Args, " "); cmd.Args of trace)
trace(cmd) == <<cmd.bin>> \o cmd.args

\* run, as far as the log goes: with debug the command line is logged
\* before the command starts
run(debug, lines, cmd) == IF debug THEN lines \cup {trace(cmd)} ELSE lines

\* cmd.Run, as far as its error goes: nil or an *exec.ExitError
cmdRun(ok) == IF ok THEN "ok" ELSE "fail"

\* whether fetchHelmVersions logs its command when debug is on
fetchLogs(v) == v \in {"part_002", "part_003a", "part_006"}

\* whether the handler of action a logs its n-th command when debug is on:
\* the namespace query of createNamespace does not go through run
handlerLogs(v, a, n) == ~(v = "part_004" /\ a = "deploy" /\ n = 1)

----------------------------------------------------------------------------
(* The configuration.  A string field is "" (unset) or a fixed non-empty   *)
(* value; a field a revision's struct does not have is "".  ChartPath is   *)
(* the sequence of its segments (what strings.Split(ChartPath, "/") gives),*)
(* ChartRepo the sequence of the parts of its URL (<<>> when unset).       *)

ActionNames == {lintPkg, createPkg, pushPkg, pullPkg, deployPkg, testPkg,
                dependencyPkg, "dependency-update", "frobnicate"}

ActionLists(n) == UNION {[1..k -> ActionNames] : k \in 0..n}

\* the lists of secret files: only their number matters
SecretLists(n) == {[k \in 1..m |-> "secret.yaml"] : m \in 0..n}

Configs(v) ==
    [Debug : IF v \in {"plugin", "part_002", "part_003b"} THEN BOOLEAN ELSE {FALSE},
     Actions : ActionLists(MaxActions),
     Project : {"", "proj"},
     Cluster : {"", "cl"},
     Zone : {"", "z1"},
     Region : IF HasRegion(v) THEN {"", "r1"} ELSE {""},
     AuthKey : IF v \in KeyBased THEN {"", "KEY"} ELSE {""},
     KeyPath : IF v \in KeyBased /\ HasKeyPath(v) THEN {"", "key.json"} ELSE {""},
     ChartPath : {<<"chart", "foo">>},
     ChartRepo : {<<>>},
     Secrets : IF v = "part_004" THEN SecretLists(MaxSecrets) ELSE {<<>>},
     ChartVersion : {"1"},
     Package : {"", "pkg"},
     Release : {"", "rel"},
     Bucket : {"bkt"},
     Namespace : {"default"},
     Values : {<< <<"a=b">> >>}]

\* no field the setup condition or setupProject reads is set
NoCluster(c) ==
    /\ c.Project = "" /\ c.Cluster = "" /\ c.Zone = "" /\ c.Region = ""
    /\ c.AuthKey = "" /\ c.KeyPath = ""

\* whether Package and Release are both given explicitly
Named(c) == c.Package # "" /\ c.Release # ""

\* The inputs explored: every combination of the cluster fields with the
\* action lists shorter than MaxActions, and every action list with the
\* cluster fields unset; Package or Release is left unset only with the
\* shorter action lists and the cluster fields unset.
Inputs(v) ==
    {c \in Configs(v) :
        /\ Len(c.Actions) < MaxActions \/ NoCluster(c)
        /\ Named(c) \/ (Len(c.Actions) < MaxActions /\ NoCluster(c))}

TmpAuthPath == "/tmp/auth-key.json"

\* a preparation that would point the chart repository at the bucket itself
bucketRepoGs(b) == <<"gs://", b>>

\* fmt.Sprintf("https://%s.storage.googleapis.com/", bucket)
bucketRepo(b) == <<"https://", b, ".storage.googleapis.com/">>

\* a preparation that would leave an unset Release as it is
prepareWithoutRelease(c) ==
    IF c.Package = ""
    THEN [c EXCEPT !.Package = c.ChartPath[Len(c.ChartPath)]] ELSE c

\* the assignments of preparePlugin before the auth key
prepareDefaults(c) ==
    LET c1 == IF c.Package = ""
              THEN [c EXCEPT !.Package = c.ChartPath[Len(c.ChartPath)]] ELSE c
        c2 == IF c1.Release = "" THEN [c1 EXCEPT !.Release = c1.Package] ELSE c1
        c3 == IF c2.ChartRepo = <<>> /\ c2.Bucket # ""
              THEN [c2 EXCEPT !.ChartRepo = bucketRepo(c2.Bucket)] ELSE c2
    IN  IF c3.Namespace = "" THEN [c3 EXCEPT !.Namespace = "default"] ELSE c3

----------------------------------------------------------------------------
(* Exec: the setup condition. *)

\* a condition that would not ask for the cluster name
setupWithoutCluster(v, c) ==
    c.Project # "" /\ (c.Zone # "" \/ c.Region # "" \/ c.AuthKey # "" \/ c.KeyPath # "")

setupNeeded(v, c) ==
    CASE v \in {"plugin", "part_002"} ->
            c.Project # "" /\ c.Cluster # "" /\ (c.AuthKey # "" \/ c.KeyPath # "")
      [] v = "part_003b" ->
            c.Project # "" /\ c.Cluster # "" /\ c.AuthKey # ""
      [] v \in {"part_003a", "part_004", "part_005"} ->
            c.Project # "" /\ c.Cluster # "" /\ (c.Zone # "" \/ c.Region # "")
      [] v = "part_006" ->
            c.Project # "" /\ c.Cluster # "" /\ c.Zone # ""

\* an Exec that would wrap the error before returning it
ExecReturnWrapped(e) == Failed(Error("exec failed", e.stage, e.pos))

\* `return err` in Exec: the error is handed to the caller as it is
ExecReturn(e) == Failed(e)

Init ==
    /\ variant \in Variants
    /\ env \in Inputs(variant)
    /\ p = prepareDefaults(env)
    /\ pc = "entry"
    /\ sub = 0
    /\ idx = 1
    /\ running = NoCmd
    /\ err = NoErr
    /\ result = NoResult
    /\ authFile = ""
    /\ tmpAuth = FALSE
    /\ credEnv = ""
    /\ ver = NoVer
    /\ option = "none"
    /\ i = 0
    /\ executed = <<>>
    /\ tempFiles = <<>>
    /\ disk = {}
    /\ nsExists \in IF variant = "part_004" THEN BOOLEAN ELSE {FALSE}
    /\ logged = {}
    /\ lastExit = "none"
    /\ prog = "Exec"
    /\ missing = {}
    /\ exit = "none"

\* Exec, up to the call of setupProject or the start of the action loop
ExecEntry ==
    /\ pc = "entry"
    /\ IF setupNeeded(variant, p)
       THEN /\ pc' = "setup"
            /\ sub' = IF variant \in KeyBased THEN 0 ELSE 1
       ELSE /\ pc' = "pipeline"
            /\ sub' = 0
    /\ UNCHANGED <<mainVars, logged, lastExit, deployVars, variant, p, idx, running, err, result, authFile, tmpAuth,
                   credEnv, ver, option, i, executed>>

----------------------------------------------------------------------------
(* setupProject. *)

authCmd(file) ==
    Cmd(gcloudBin, <<"auth", "activate-service-account", "--key-file=", file>>)
projectCmd(c) == Cmd(gcloudBin, <<"config", "set", "project", c.Project>>)
clusterZoneCmd(c) ==
    Cmd(gcloudBin, <<"container", "clusters", "get-credentials", c.Cluster,
                     "--zone", c.Zone>>)
clusterRegionCmd(c) ==
    Cmd(gcloudBin, <<"container", "clusters", "get-credentials", c.Cluster,
                     "--region", c.Region>>)

\* a setupProject in which the zone would win over the region
clusterCmdZoneFirst(v, c) ==
    IF c.Zone # "" THEN clusterZoneCmd(c) ELSE clusterRegionCmd(c)

\* the cluster configuration command of setupProject
clusterCmd(v, c) ==
    IF HasRegion(v) /\ c.Region # "" THEN clusterRegionCmd(c) ELSE clusterZoneCmd(c)

\* a setupProject that would configure the cluster before the project
setupCmdsClusterFirst(v, c, file) ==
    IF v \in KeyBased
    THEN <<authCmd(file), clusterCmd(v, c), projectCmd(c)>>
    ELSE <<clusterCmd(v, c), projectCmd(c)>>

\* the commands setupProject runs, in its order
setupCmds(v, c, file) ==
    IF v \in KeyBased
    THEN <<authCmd(file), projectCmd(c), clusterCmd(v, c)>>
    ELSE <<projectCmd(c), clusterCmd(v, c)>>

\* the error setupProject returns when its k-th command fails
setupErr(v, k) ==
    IF v \in {"plugin", "part_003b"}
    THEN Error("", "setup", k)
    ELSE LET n == IF v \in KeyBased THEN k ELSE k + 1
         IN  Error(CASE n = 1 -> "could not authorize with glcoud"
                     [] n = 2 -> "could not the configure the project with glcoud"
                     [] OTHER -> "could not configure the cluster with glcoud",
                   "setup", k)

\* a setupProject that would set the variable first and clear it at its end
setenvCleared(v, when, file, old) ==
    IF when = "start" THEN file ELSE ""

\* os.Setenv("GOOGLE_APPLICATION_CREDENTIALS", authFile) in setupProject:
\* the value of the variable after the point `when` of setupProject
\* ("start": before the first command, "end": after the last one)
setenv(v, when, file, old) ==
    CASE when = "start" /\ v = "part_002" -> file
      [] when = "end" /\ v \in {"plugin", "part_003b"} -> file
      [] OTHER -> old

\* whether setupProject writes the inline key to a temporary file
needsTmpAuth(v, c) ==
    IF v = "part_003b" THEN TRUE ELSE c.AuthKey # "" /\ c.KeyPath = ""

\* an Exec that would start the actions right after setupProject
afterSetupSkipInit(v) == "pipeline"

\* where Exec goes when setupProject has returned nil
afterSetup(v) == IF v \in WithHelmInit THEN "fetch" ELSE "pipeline"

\* setupProject, up to its first command: the credential file
setupProjectAuthFile ==
    /\ pc = "setup" /\ sub = 0
    /\ \E t \in {"ok", "create", "write"} :
         IF ~needsTmpAuth(variant, p)
         THEN /\ t = "ok"
              /\ authFile' = p.KeyPath
              /\ credEnv' = setenv(variant, "start", p.KeyPath, credEnv)
              /\ sub' = 1
              /\ UNCHANGED <<pc, err, result, tmpAuth>>
         ELSE CASE t = "ok" ->
                     /\ authFile' = TmpAuthPath
                     /\ tmpAuth' = TRUE
                     /\ credEnv' = setenv(variant, "start", TmpAuthPath, credEnv)
                     /\ sub' = 1
                     /\ UNCHANGED <<pc, err, result>>
                [] t = "create" ->
                     /\ err' = Error("tempfile", "setup", 0)
                     /\ result' = ExecReturn(err')
                     /\ pc' = "done"
                     /\ UNCHANGED <<sub, authFile, tmpAuth, credEnv>>
                [] t = "write" ->
                     /\ tmpAuth' = TRUE
                     /\ err' = Error("tempfile", "setup", 0)
                     /\ result' = ExecReturn(err')
                     /\ pc' = "done"
                     /\ UNCHANGED <<sub, authFile, credEnv>>
    /\ UNCHANGED <<mainVars, logged, lastExit, deployVars, variant, p, idx, running, ver, option, i, executed>>

\* setupProject starts its next command
setupProjectRun ==
    /\ pc = "setup" /\ sub >= 1 /\ running = NoCmd
    /\ running' = setupCmds(variant, p, authFile)[sub]
    /\ logged' = run(p.Debug, logged, running')
    /\ UNCHANGED <<mainVars, lastExit, deployVars, variant, p, pc, sub, idx, err, result, authFile, tmpAuth,
                   credEnv, ver, option, i, executed>>

\* the command of setupProject exits
setupProjectWait ==
    /\ pc = "setup" /\ running # NoCmd
    /\ running' = NoCmd
    /\ \E ok \in BOOLEAN :
         /\ lastExit' = cmdRun(ok)
         /\ ok => running.bin \in InstalledBins
         /\ IF ~ok
            THEN /\ err' = setupErr(variant, sub)
                 /\ result' = ExecReturn(err')
                 /\ pc' = "done"
                 /\ UNCHANGED <<sub, credEnv>>
            ELSE IF sub < Len(setupCmds(variant, p, authFile))
            THEN /\ sub' = sub + 1
                 /\ UNCHANGED <<pc, err, result, credEnv>>
            ELSE /\ pc' = afterSetup(variant)
                 /\ sub' = 0
                 /\ credEnv' = setenv(variant, "end", authFile, credEnv)
                 /\ UNCHANGED <<err, result>>
    /\ UNCHANGED <<mainVars, logged, deployVars, variant, p, idx, authFile, tmpAuth, ver, option, i, executed>>

----------------------------------------------------------------------------
(* Version strings.  A string is the sequence of its bytes, so that        *)
(* strings.Compare is the byte-wise comparison it is in Go.                *)

Versions == {<<2, m, 0>> : m \in 8..MaxMinor}

Digits(n) == IF n < 10 THEN <<48 + n>> ELSE <<48 + (n \div 10), 48 + (n % 10)>>

\* "v<major>.<minor>.<patch>", the SemVer field helm prints
SemVerString(v) ==
    <<118>> \o Digits(v[1]) \o <<46>> \o Digits(v[2]) \o <<46>> \o Digits(v[3])

SemVerStrings == {SemVerString(v) : v \in Versions}

\* strings.Compare
stringsCompare(a, b) ==
    LET n == IF Len(a) < Len(b) THEN Len(a) ELSE Len(b)
        d == {k \in 1..n : a[k] # b[k]}
    IN  IF d = {}
        THEN IF Len(a) < Len(b) THEN -1 ELSE IF Len(a) > Len(b) THEN 1 ELSE 0
        ELSE LET k == CHOOSE x \in d : \A y \in d : x <= y
             IN  IF a[k] < b[k] THEN -1 ELSE 1

\* the numeric segments of a version string (go-version's NewVersion)
RECURSIVE parseSegments(_, _)
parseSegments(s, cur) ==
    IF s = <<>> THEN <<cur>>
    ELSE IF Head(s) = 46 THEN <<cur>> \o parseSegments(Tail(s), 0)
    ELSE parseSegments(Tail(s), cur * 10 + (Head(s) - 48))

\* version.NewVersion: the segments, or <<>> for a malformed version
newVersion(s) ==
    IF s = <<>> THEN <<>>
    ELSE parseSegments(IF Head(s) = 118 THEN Tail(s) ELSE s, 0)

\* Version.Compare of go-version on two parsed versions
versionCompare(a, b) ==
    LET d == {k \in 1..Len(a) : a[k] # b[k]}
    IN  IF d = {} THEN 0
        ELSE LET k == CHOOSE x \in d : \A y \in d : x <= y
             IN  IF a[k] < b[k] THEN -1 ELSE 1

----------------------------------------------------------------------------
(* fetchHelmVersions and scanNamed. *)

\* A line of the output of `helm version`: one reVersions matches, with
\* its realm and semver groups, or one it does not match (realm "").
NoMatch == [realm |-> "", semver |-> <<>>]
Lines == {NoMatch} \cup [realm : {"Client", "Server"}, semver : SemVerStrings]

\* what strings.Split(out, "\n") yields: at least one element
Outputs == UNION {[1..k -> Lines] : k \in 1..MaxLines}

\* the output of `helm version --template`: the JSON object of the
\* template (a version is "" when helm printed none), or no JSON at all
TemplateOutputs ==
    [json : BOOLEAN, client : SemVerStrings \cup {<<>>},
     server : SemVerStrings \cup {<<>>}]

\* scanNamed: the named groups of the matches, an error if there are none
scanNamed(line) ==
    IF line.realm = ""
    THEN [err |-> Error("emtpy resultset", "fetch", 0), entry |-> NoMatch]
    ELSE [err |-> NoErr, entry |-> line]

\* versions[strings.ToLower(entry["realm"])] = entry, then the semver of
\* the "client" and "server" keys ("" for a missing key)
putVersion(m, entry) ==
    IF entry.realm = "Client" THEN [m EXCEPT !.client = entry.semver]
    ELSE [m EXCEPT !.server = entry.semver]

\* fetchHelmVersions on the lines of a successful `helm version`
fetchHelmVersions(lines) ==
    IF Len(lines) < 2
    THEN [kind |-> "panic", err |-> NoErr, ver |-> NoVer]
    ELSE LET e1 == scanNamed(lines[1])
             e2 == scanNamed(lines[2])
         IN  IF e1.err # NoErr
             THEN [kind |-> "error", err |-> e1.err, ver |-> NoVer]
             ELSE IF e2.err # NoErr
             THEN [kind |-> "error", err |-> e2.err, ver |-> NoVer]
             ELSE [kind |-> "ok", err |-> NoErr,
                   ver |-> putVersion(putVersion(NoVer, e1.entry), e2.entry)]

\* fetchHelmVersions of part_003a on the output of the template call
fetchHelmVersionsTemplate(out) ==
    IF ~out.json
    THEN [kind |-> "error", err |-> Error("could not parse client version", "fetch", 0),
          ver |-> NoVer]
    ELSE [kind |-> "ok", err |-> NoErr,
          ver |-> [client |-> out.client, server |-> out.server]]

\* the error fetchHelmVersions returns when `helm version` fails
fetchFailed(v) ==
    [kind |-> "error",
     err |-> Error(CASE v = "part_002" -> "could not get helm version"
                     [] v = "part_003a" -> "could not run command"
                     [] OTHER -> "stderr",
                   "query", 0),
     ver |-> NoVer]

\* every result fetchHelmVersions can have once `helm version` has exited
fetchResults(v, ok) ==
    IF ~ok THEN {fetchFailed(v)}
    ELSE IF v = "part_003a"
    THEN {fetchHelmVersionsTemplate(o) : o \in TemplateOutputs}
    ELSE {fetchHelmVersions(o) : o \in Outputs}

----------------------------------------------------------------------------
(* helmInit. *)

\* the literal retry count helmInit passes to pollTiller
retries == 10

versionCmd(v) ==
    IF v = "part_003a" THEN Cmd(helmBin, <<"version", "--template", "template">>)
    ELSE Cmd(helmBin, <<"version">>)

pollCmd(v) ==
    IF v = "part_003a" THEN Cmd(helmBin, <<"version", "--server">>)
    ELSE Cmd(helmBin, <<"version">>)

\* the command helmInit builds for a mode flag ("" for plain init)
initCmd(v, flag) ==
    IF v = "part_002"
    THEN \* helmInit := "<helmBin> init"; helmInit += flag; exec.Command(helmInit)
         Cmd(CASE flag = "" -> "helm init"
               [] flag = "--upgrade" -> "helm init--upgrade"
               [] OTHER -> "helm init--client-only", <<>>)
    ELSE IF flag = "" THEN Cmd(helmBin, <<"init">>)
    ELSE Cmd(helmBin, <<"init", flag>>)

\* the comparison of the switch in helmInit: -1, 0, 1, or 2 when a
\* version cannot be converted (part_003a)
compareVersions(v, vs) ==
    IF v = "part_003a"
    THEN IF newVersion(vs.client) = <<>> \/ newVersion(vs.server) = <<>> THEN 2
         ELSE versionCompare(newVersion(vs.client), newVersion(vs.server))
    ELSE stringsCompare(vs.client, vs.server)

\* helmInit from the result r of fetchHelmVersions to the command it will
\* run, or the error it returns
helmInitDecide(v, r) ==
    IF r.kind = "panic" THEN [kind |-> "panic", err |-> NoErr, flag |-> ""]
    ELSE IF r.kind = "error"
    THEN IF v = "part_003a"
         THEN [kind |-> "error",
               err |-> Error("could not fetch helm versions", r.err.stage, 0),
               flag |-> ""]
         ELSE [kind |-> "cmd", err |-> r.err, flag |-> ""]
    ELSE LET c == compareVersions(v, r.ver)
         IN  CASE c = 2 ->
                   [kind |-> "error",
                    err |-> Error("could not convert version to semver", "compare", 0),
                    flag |-> ""]
               [] c = -1 ->
                   [kind |-> "error",
                    err |-> Error("helm client is out of date", "compare", 0),
                    flag |-> ""]
               [] c = 1 -> [kind |-> "cmd", err |-> NoErr, flag |-> "--upgrade"]
               [] OTHER -> [kind |-> "cmd", err |-> NoErr, flag |-> "--client-only"]

\* whether helmInit polls after a successful init with this flag
pollsAfter(v, flag) == IF v = "part_003a" THEN flag = "--upgrade" ELSE TRUE

\* the loop condition of the polling loop after n completed checks
pollAgain(v, n) ==
    CASE v \in {"plugin", "part_006"} -> n < retries
      [] v = "part_002" -> n <= retries
      [] v = "part_003b" -> retries - n >= 0
      [] v = "part_003a" -> n < updateRetries

\* a polling that would swallow the error of its last check
pollTillerIgnored(v, e) == NoErr

\* what the polling returns when the loop ends with the error e
pollTillerReturn(v, e) ==
    IF v = "part_003a"
    THEN Error("could not wait for tiller: max retries exceeded", e.stage, e.pos)
    ELSE e

\* fetchHelmVersions starts `helm version`
fetchHelmVersionsRun ==
    /\ pc = "fetch" /\ running = NoCmd
    /\ running' = versionCmd(variant)
    /\ logged' = run(p.Debug /\ fetchLogs(variant), logged, running')
    /\ UNCHANGED <<mainVars, lastExit, deployVars, variant, p, pc, sub, idx, err, result, authFile, tmpAuth,
                   credEnv, ver, option, i, executed>>

\* `helm version` exits; fetchHelmVersions returns and helmInit takes its
\* switch
fetchHelmVersionsWait ==
    /\ pc = "fetch" /\ running # NoCmd
    /\ running' = NoCmd
    /\ \E ok \in BOOLEAN : \E r \in fetchResults(variant, ok) :
         /\ lastExit' = cmdRun(ok)
         /\ LET d == helmInitDecide(variant, r)
            IN  /\ ver' = r.ver
                /\ option' = IF d.kind = "cmd" THEN d.flag ELSE option
                /\ err' = d.err
                /\ CASE d.kind = "cmd" -> pc' = "init" /\ result' = result
                     [] d.kind = "error" -> pc' = "done" /\ result' = ExecReturn(d.err)
                     [] OTHER -> pc' = "done" /\ result' = Panic
    /\ UNCHANGED <<mainVars, logged, deployVars, variant, p, sub, idx, authFile, tmpAuth, credEnv, i, executed>>

\* helmInit starts the init command it has built
helmInitRun ==
    /\ pc = "init" /\ running = NoCmd
    /\ running' = initCmd(variant, option)
    /\ logged' = run(p.Debug, logged, running')
    /\ UNCHANGED <<mainVars, lastExit, deployVars, variant, p, pc, sub, idx, err, result, authFile, tmpAuth,
                   credEnv, ver, option, i, executed>>

\* the init command exits
helmInitWait ==
    /\ pc = "init" /\ running # NoCmd
    /\ running' = NoCmd
    /\ ver' = NoVer
    /\ \E ok \in BOOLEAN :
         /\ lastExit' = cmdRun(ok)
         /\ ok => running.bin \in InstalledBins
         /\ IF ~ok
            THEN /\ err' = Error(IF variant = "part_003a"
                                 THEN "could not run command" ELSE "", "init", 0)
                 /\ result' = ExecReturn(err')
                 /\ pc' = "done"
                 /\ option' = option
            ELSE /\ err' = NoErr
                 /\ result' = result
                 /\ pc' = IF pollsAfter(variant, option) THEN "poll" ELSE "pipeline"
                 /\ option' = IF pollsAfter(variant, option) THEN option ELSE "none"
    /\ UNCHANGED <<mainVars, logged, deployVars, variant, p, sub, idx, authFile, tmpAuth, credEnv, i, executed>>

\* the polling loop starts a readiness check
pollTillerRun ==
    /\ pc = "poll" /\ running = NoCmd
    /\ running' = pollCmd(variant)
    /\ logged' = run(p.Debug, logged, running')
    /\ UNCHANGED <<mainVars, lastExit, deployVars, variant, p, pc, sub, idx, err, result, authFile, tmpAuth,
                   credEnv, ver, option, i, executed>>

\* the readiness check exits
pollTillerWait ==
    /\ pc = "poll" /\ running # NoCmd
    /\ running' = NoCmd
    /\ \E ok \in BOOLEAN :
         /\ lastExit' = cmdRun(ok)
         /\ IF ok
            THEN /\ err' = NoErr
                 /\ i' = 0
                 /\ option' = "none"
                 /\ pc' = "pipeline"
                 /\ result' = result
            ELSE /\ err' = Error("", "poll", i + 1)
                 /\ IF pollAgain(variant, i + 1)
                    THEN /\ i' = i + 1
                         /\ UNCHANGED <<pc, result, option>>
                    ELSE LET r == pollTillerReturn(variant, err')
                         IN  /\ i' = 0
                             /\ IF r = NoErr
                                THEN /\ pc' = "pipeline"
                                     /\ option' = "none"
                                     /\ result' = result
                                ELSE /\ pc' = "done"
                                     /\ option' = option
                                     /\ result' = ExecReturn(r)
    /\ UNCHANGED <<mainVars, logged, deployVars, variant, p, sub, idx, authFile, tmpAuth, credEnv, ver, executed>>

----------------------------------------------------------------------------
(* The action pipeline: the loop of Exec and the handlers. *)

\* a switch that would have the seven cases in every revision
knownActionsAll(v) ==
    {lintPkg, createPkg, pushPkg, pullPkg, deployPkg, testPkg, dependencyPkg}

\* the cases of the switch in Exec
knownActions(v) ==
    CASE v \in {"plugin", "part_002", "part_003b"} ->
            {lintPkg, createPkg, pushPkg, pullPkg, deployPkg}
      [] v \in {"part_003a", "part_005", "part_006"} ->
            {lintPkg, createPkg, pushPkg, pullPkg, deployPkg, testPkg}
      [] v = "part_004" ->
            {lintPkg, createPkg, pushPkg, pullPkg, deployPkg, testPkg, dependencyPkg}

\* a loop that would handle the first element in every iteration
firstAction(c, k) == c.Actions[1]

\* a loop that would walk the action list from its end
reversedAction(c, k) == c.Actions[Len(c.Actions) + 1 - k]

\* the element of the action list the k-th iteration of the loop handles
currentAction(c, k) == c.Actions[k]

sh(args) == Cmd("/bin/sh", <<"-c">> \o args)

tarFile(c) == <<c.Package, "-", c.ChartVersion, ".tgz">>

lintCmd(v, c) ==
    IF v \in {"part_003b", "part_004"} THEN sh(<<helmBin, "lint", c.ChartPath>>)
    ELSE Cmd(helmBin, <<"lint", c.ChartPath>>)
createCmd(c) == Cmd(helmBin, <<"package", "--version", c.ChartVersion, c.ChartPath>>)
pushCmd(c) == Cmd(gsutilBin, <<"cp">> \o tarFile(c) \o <<"gs://", c.Bucket>>)
\* a pullPackage that would name the object after the release
pullCmdRelease(c) ==
    Cmd(gsutilBin, <<"cp", "gs://", c.Bucket, "/", c.Release, "-", c.ChartVersion, ".tgz">>
                   \o tarFile(c))

pullCmd(c) ==
    Cmd(gsutilBin, <<"cp", "gs://", c.Bucket, "/">> \o tarFile(c) \o tarFile(c))

RECURSIVE stringsJoin(_)
\* strings.Join(vals, ","): an entry is the sequence of the parts it was
\* formatted from
stringsJoin(vals) ==
    IF vals = <<>> THEN <<>>
    ELSE IF Len(vals) = 1 THEN vals[1]
    ELSE vals[1] \o <<",">> \o stringsJoin(Tail(vals))

\* the Values deployPackage works with: the key-based revisions append a
\* namespace= entry to the list of their own copy of the Plugin
deployValues(v, c) ==
    IF v \in KeyBased THEN Append(c.Values, <<"namespace=", c.Namespace>>)
    ELSE c.Values

\* the --set argument of the helm upgrade
setArgs(v, c) ==
    IF v \in KeyBased \/ Len(c.Values) > 0
    THEN <<"--set">> \o stringsJoin(deployValues(v, c))
    ELSE <<>>

\* a deployPackage with a pointer receiver, whose append would stay in the
\* Plugin of Exec
handlerConfigPointer(v, a, c) ==
    IF a = deployPkg THEN [c EXCEPT !.Values = deployValues(v, c)] ELSE c

\* the Plugin of Exec after the handler of action a has returned: every
\* handler has a value receiver and works on a copy
handlerConfig(v, a, c) == c

upgradeCmd(v, c) ==
    sh(<<helmBin, "upgrade", c.Release>> \o tarFile(c) \o setArgs(v, c)
       \o <<"--install", "--namespace", c.Namespace>>)
testCmd(c) == sh(<<helmBin, "test", c.Release>>)
kubeConfigCmd == Cmd(kubectlBin, <<"config", "view">>)
checkNSCmd(c) == Cmd(kubectlBin, <<"get", "namespace", "--ignore-not-found", c.Namespace>>)
createNSCmd(c) == Cmd(kubectlBin, <<"create", "namespace", c.Namespace>>)
repoAddCmd == Cmd(helmBin, <<"repo", "add", "stable">>)
\* an addRepo that would add the repository a second time in place of the
\* update
repoAddAgain == Cmd(helmBin, <<"repo", "add", "stable">>)
repoUpdateCmd == Cmd(helmBin, <<"repo", "update">>)
dependencyUpdateCmd(c) == Cmd(helmBin, <<"dependency", "update", c.ChartPath>>)

\* a deployPackage of part_004 that would upgrade before it looks at the
\* namespace
handlerCmdsUpgradeFirst(v, a, c) ==
    CASE a = lintPkg -> <<lintCmd(v, c)>>
      [] a = createPkg -> <<createCmd(c)>>
      [] a = pushPkg -> <<pushCmd(c)>>
      [] a = pullPkg -> <<pullCmd(c)>>
      [] a = testPkg -> <<testCmd(c)>>
      [] a = dependencyPkg -> <<repoAddCmd, repoUpdateCmd, dependencyUpdateCmd(c)>>
      [] a = deployPkg ->
            IF v = "part_004" THEN <<upgradeCmd(v, c), checkNSCmd(c), createNSCmd(c)>>
            ELSE IF v = "part_003b" /\ c.Debug THEN <<kubeConfigCmd, upgradeCmd(v, c)>>
            ELSE <<upgradeCmd(v, c)>>

\* the commands the handler of action a can run, in its order
handlerCmds(v, a, c) ==
    CASE a = lintPkg -> <<lintCmd(v, c)>>
      [] a = createPkg -> <<createCmd(c)>>
      [] a = pushPkg -> <<pushCmd(c)>>
      [] a = pullPkg -> <<pullCmd(c)>>
      [] a = testPkg -> <<testCmd(c)>>
      [] a = dependencyPkg -> <<repoAddCmd, repoUpdateCmd, dependencyUpdateCmd(c)>>
      [] a = deployPkg ->
            IF v = "part_004" THEN <<checkNSCmd(c), createNSCmd(c), upgradeCmd(v, c)>>
            ELSE IF v = "part_003b" /\ c.Debug THEN <<kubeConfigCmd, upgradeCmd(v, c)>>
            ELSE <<upgradeCmd(v, c)>>

\* a handler that would return nil when its command fails
handlerErrNil(v, a, n, k) == NoErr

\* the error the handler of the action at position k returns when its
\* n-th command fails
handlerErr(v, a, n, k) ==
    Error(CASE v = "part_004" /\ a = deployPkg /\ n < 3 -> "could not create namespace"
            [] v = "part_004" /\ a = dependencyPkg /\ n = 1 -> "could not add stable repo"
            [] v = "part_004" /\ a = dependencyPkg /\ n = 2 -> "could not update repos"
            [] OTHER -> "",
          "action", k)

\* the helm upgrade of part_004's deployPackage, with a -f argument for
\* every decrypted secret file
upgradeSecretsCmd(c, files) ==
    sh(<<helmBin, "upgrade", c.Release>> \o tarFile(c) \o setArgs("part_004", c)
       \o [k \in 1..(2 * Len(files)) |->
             IF k % 2 = 1 THEN "-f" ELSE files[k \div 2]]
       \o <<"--install", "--namespace", c.Namespace>>)

\* the n-th command of the handler of action a, given the secret files
\* decrypted so far
handlerCmd(v, a, c, n, files) ==
    IF v = "part_004" /\ a = deployPkg /\ n = 3 /\ files # <<>>
    THEN upgradeSecretsCmd(c, files)
    ELSE handlerCmds(v, a, c)[n]

\* the output of `kubectl get namespace --ignore-not-found <name>`: the
\* table of the namespace, or nothing when there is none
checkNSResponse(exists) == IF exists THEN <<"NAME", "STATUS", "AGE">> ELSE <<>>

\* a createNamespace that would create the namespace whatever the query says
createAlways(response) == TRUE

\* createNamespace: `len(response) == 0`
createNeeded(response) == Len(response) = 0

\* whether the handler of action a is deployPackage with its secret loop
hasSecretLoop(v, a) == v = "part_004" /\ a = deployPkg

\* ioutil.TempFile(".", "decrypted"): a name no file on disk has
freshFile(files) == CHOOSE n \in 1..(Cardinality(files) + 1) : n \notin files

\* a deployPackage whose deferred function would leave the files
keepTempFiles(files, temps) == files

\* the deferred function of deployPackage: os.Remove of every temp file
removeTempFiles(files, temps) == files \ {temps[k] : k \in 1..Len(temps)}

\* the error deployPackage returns from its secret loop
secretErr(t, k) ==
    Error(CASE t = "decrypt" -> "could not decrypt secret file"
            [] t = "create" -> "could not create temp file for the decrypted secrets"
            [] t = "write" -> "could not write temp file with decrypted secrets"
            [] OTHER -> "could not sync temp file with decrypted secrets",
          "action", k)

\* the loop of Exec calls the handler of the next action
ExecDispatch ==
    /\ pc = "pipeline" /\ running = NoCmd
    /\ idx <= Len(p.Actions)
    /\ currentAction(p, idx) \in knownActions(variant)
    /\ pc' = "handler"
    /\ sub' = 1
    /\ executed' = Append(executed, currentAction(p, idx))
    /\ UNCHANGED <<mainVars, logged, lastExit, deployVars, variant, p, idx, running, err, result, authFile, tmpAuth,
                   credEnv, ver, option, i>>

\* the default case of the switch
ExecUnknownAction ==
    /\ pc = "pipeline" /\ running = NoCmd
    /\ idx <= Len(p.Actions)
    /\ currentAction(p, idx) \notin knownActions(variant)
    /\ err' = Error("unknown action", "dispatch", idx)
    /\ result' = ExecReturn(err')
    /\ pc' = "done"
    /\ UNCHANGED <<mainVars, logged, lastExit, deployVars, variant, p, sub, idx, running, authFile, tmpAuth, credEnv,
                   ver, option, i, executed>>

\* the loop is over: return nil
ExecFinish ==
    /\ pc = "pipeline" /\ running = NoCmd
    /\ idx > Len(p.Actions)
    /\ result' = Ok
    /\ pc' = "done"
    /\ UNCHANGED <<mainVars, logged, lastExit, deployVars, variant, p, sub, idx, running, err, authFile, tmpAuth,
                   credEnv, ver, option, i, executed>>

\* the handler of action a starts its next command
HandlerRun(a) ==
    /\ pc = "handler" /\ running = NoCmd
    /\ currentAction(p, idx) = a
    /\ hasSecretLoop(variant, a) /\ sub = 3 => Len(tempFiles) = Len(p.Secrets)
    /\ running' = handlerCmd(variant, a, p, sub, tempFiles)
    /\ logged' = run(p.Debug /\ handlerLogs(variant, a, sub), logged, running')
    /\ UNCHANGED <<mainVars, lastExit, deployVars, variant, p, pc, sub, idx, err, result, authFile, tmpAuth,
                   credEnv, ver, option, i, executed>>

lintPackage == HandlerRun(lintPkg)
createPackage == HandlerRun(createPkg)
pushPackage == HandlerRun(pushPkg)
pullPackage == HandlerRun(pullPkg)
deployPackage == HandlerRun(deployPkg)
testPackage == HandlerRun(testPkg)
dependencyUpdate == HandlerRun(dependencyPkg)

\* one iteration of the secret loop of deployPackage: decrypt the next
\* secret file into a temporary file; an error returns from deployPackage,
\* whose deferred function then removes the temporary files
decryptSecret ==
    /\ pc = "handler" /\ running = NoCmd
    /\ hasSecretLoop(variant, currentAction(p, idx)) /\ sub = 3
    /\ Len(tempFiles) < Len(p.Secrets)
    /\ \E t \in {"ok", "decrypt", "create", "write", "sync"} :
         LET f == freshFile(disk)
             created == t \in {"ok", "write", "sync"}
             temps == IF created THEN Append(tempFiles, f) ELSE tempFiles
             files == IF created THEN disk \cup {f} ELSE disk
         IN  IF t = "ok"
             THEN /\ tempFiles' = temps
                  /\ disk' = files
                  /\ UNCHANGED <<pc, err, result>>
             ELSE /\ err' = secretErr(t, idx)
                  /\ result' = ExecReturn(err')
                  /\ pc' = "done"
                  /\ tempFiles' = <<>>
                  /\ disk' = removeTempFiles(files, temps)
    /\ UNCHANGED <<mainVars, logged, lastExit, variant, p, sub, idx, running, authFile, tmpAuth,
                   credEnv, ver, option, i, executed, nsExists>>

\* the command of a handler exits.  The namespace query of part_004
\* answers with the table of the namespace or with nothing, and
\* createNamespace creates the namespace or returns.
HandlerWait ==
    /\ pc = "handler" /\ running # NoCmd
    /\ running' = NoCmd
    /\ LET a == currentAction(p, idx)
           n == Len(handlerCmds(variant, a, p))
           query == variant = "part_004" /\ a = deployPkg /\ sub = 1
           create == variant = "part_004" /\ a = deployPkg /\ sub = 2
           \* the files left when the handler returns: deployPackage's
           \* deferred function has run
           left == IF hasSecretLoop(variant, a)
                   THEN removeTempFiles(disk, tempFiles) ELSE disk
       IN  \E ok \in BOOLEAN :
             /\ lastExit' = cmdRun(ok)
             /\ CASE ~ok ->
                       /\ err' = handlerErr(variant, a, sub, idx)
                       /\ result' = ExecReturn(err')
                       /\ pc' = "done"
                       /\ tempFiles' = <<>>
                       /\ disk' = left
                       /\ UNCHANGED <<p, sub, idx, nsExists>>
                  [] ok /\ query ->
                       /\ sub' = IF createNeeded(checkNSResponse(nsExists)) THEN 2 ELSE 3
                       /\ UNCHANGED <<p, pc, idx, err, result, deployVars>>
                  [] ok /\ ~query /\ sub < n ->
                       /\ sub' = sub + 1
                       /\ nsExists' = (nsExists \/ create)
                       /\ UNCHANGED <<p, pc, idx, err, result, tempFiles, disk>>
                  [] OTHER ->
                       /\ p' = handlerConfig(variant, a, p)
                       /\ pc' = "pipeline"
                       /\ sub' = 0
                       /\ idx' = idx + 1
                       /\ tempFiles' = <<>>
                       /\ disk' = left
                       /\ UNCHANGED <<err, result, nsExists>>
    /\ UNCHANGED <<mainVars, logged, variant, authFile, tmpAuth, credEnv, ver, option,
                   i, executed>>

----------------------------------------------------------------------------

Next ==
    \/ ExecEntry
    \/ setupProjectAuthFile
    \/ setupProjectRun
    \/ setupProjectWait
    \/ fetchHelmVersionsRun
    \/ fetchHelmVersionsWait
    \/ helmInitRun
    \/ helmInitWait
    \/ pollTillerRun
    \/ pollTillerWait
    \/ ExecDispatch
    \/ ExecUnknownAction
    \/ ExecFinish
    \/ lintPackage
    \/ createPackage
    \/ pushPackage
    \/ pullPackage
    \/ deployPackage
    \/ testPackage
    \/ dependencyUpdate
    \/ decryptSecret
    \/ HandlerWait

Spec == Init /\ [][Next]_vars

\* Exec under its scheduling: one goroutine runs the steps in sequence, and
\* cmd.Run returns once the subprocess has exited, so a step that can be
\* taken is taken as long as every subprocess terminates
SpecFair == Spec /\ WF_vars(Next)

----------------------------------------------------------------------------
(* The programs around Exec: main of src/main.go (with its preparePlugin)  *)
(* and main of part_007 (with newPlugin of part_002).  main.go calls       *)
(* fetchHelmVersions(debug bool) and setupAuth, which part_003a and        *)
(* part_006 define; part_007 calls newPlugin, which part_002 defines.      *)
(* main of main.go returns before it calls preparePlugin, which is         *)
(* modelled as an operation of its own on a loaded configuration.          *)

\* the environment variables envconfig requires (required:"true")
Required == {"ACTIONS", "CHART_PATH"}

\* the Plugin envconfig.Process fills when the variables in m are not set
unset(c, m) ==
    [c EXCEPT !.Actions = IF "ACTIONS" \in m THEN <<>> ELSE @,
              !.ChartPath = IF "CHART_PATH" \in m THEN <<"">> ELSE @]

\* the configurations preparePlugin is applied to
PrepareConfigs ==
    [Debug : {FALSE}, Actions : {<<deployPkg>>},
     Project : {"proj"}, Cluster : {"cl"}, Zone : {"z1"}, Region : {""},
     AuthKey : {"", "KEY"}, KeyPath : {"", "key.json"},
     ChartPath : {<<"chart", "foo">>, <<"foo">>, <<"chart", "foo", "">>},
     ChartRepo : {<<>>, <<"https://charts">>}, Secrets : {<<>>},
     ChartVersion : {"1"}, Package : {"", "pkg"}, Release : {"", "rel"},
     Bucket : {"", "bkt", "b2"}, Namespace : {"", "ns"},
     Values : {<< <<"a=b">> >>}]

\* envconfig.Process: the error for a required variable that is not set
envconfigProcess(m) ==
    IF m # {} THEN Error("failed to parse parameters", "config", 0) ELSE NoErr

\* newPlugin: both of its return statements return a nil *Plugin
newPlugin(c, m) == [plugin |-> "nil", err |-> envconfigProcess(m)]

\* the error preparePlugin returns at the stage t
prepareErr(t) ==
    Error(CASE t = "create" -> "could not create temporary file for the auth key"
            [] t = "write" -> "could not write to temporary auth key file"
        [] t = "close" -> "could not close the temporary auth key file"
            [] OTHER -> "could not setup auth",
          "prepare", 0)

InitMain ==
    /\ prog \in {"main.go", "part_007", "preparePlugin"}
    /\ variant \in IF prog = "part_007" THEN {"part_002"}
                   ELSE {"part_003a", "part_006"}
    /\ missing \in IF prog = "preparePlugin" THEN {{}} ELSE SUBSET Required
    /\ env \in IF prog = "preparePlugin" THEN PrepareConfigs
               ELSE {unset(c, missing) : c \in {d \in Inputs(variant) : NoCluster(d)}}
    /\ p = env
    /\ pc = IF prog = "preparePlugin" THEN "prepare" ELSE "main"
    /\ sub = 0
    /\ idx = 1
    /\ running = NoCmd
    /\ err = NoErr
    /\ result = NoResult
    /\ authFile = ""
    /\ tmpAuth = FALSE
    /\ credEnv = ""
    /\ ver = NoVer
    /\ option = "none"
    /\ i = 0
    /\ executed = <<>>
    /\ tempFiles = <<>>
    /\ disk = {}
    /\ nsExists = FALSE
    /\ logged = {}
    /\ lastExit = "none"
    /\ exit = "none"

\* what main and preparePlugin leave alone
execVars == <<sub, idx, authFile, result, option, i, executed, deployVars>>

\* main of main.go starts `helm version` (fetchHelmVersions(true)) before it
\* has read any configuration
mainFetchRun ==
    /\ prog = "main.go" /\ pc = "main"
    /\ running' = versionCmd(variant)
    /\ pc' = "mainfetch"
    /\ logged' = run(TRUE, logged, running')
    /\ UNCHANGED <<execVars, lastExit, variant, p, err, tmpAuth, credEnv, ver, prog, env, missing, exit>>

\* `helm version` exits: main prints the error of fetchHelmVersions if there
\* is one, and returns (main.go:20); a panic of fetchHelmVersions ends the
\* process with status 2
mainFetchWait ==
    /\ prog = "main.go" /\ pc = "mainfetch"
    /\ running' = NoCmd
    /\ pc' = "exited"
    /\ \E ok \in BOOLEAN : \E r \in fetchResults(variant, ok) :
         /\ lastExit' = cmdRun(ok)
         /\ ver' = r.ver
         /\ err' = r.err
         /\ exit' = IF r.kind = "panic" THEN 2 ELSE 0
    /\ UNCHANGED <<execVars, logged, variant, p, tmpAuth, credEnv, prog, env, missing>>

\* main of part_007 calls newPlugin; log.Fatalf on its error
mainNewPlugin ==
    /\ prog = "part_007" /\ pc = "main"
    /\ LET r == newPlugin(env, missing)
       IN  /\ err' = r.err
           /\ IF r.err # NoErr
              THEN pc' = "exited" /\ exit' = 1
              ELSE pc' = "loaded" /\ exit' = exit
    /\ UNCHANGED <<execVars, logged, lastExit, variant, p, running, tmpAuth, credEnv, ver, prog, env, missing>>

\* main of part_007 calls p.Exec() on the *Plugin newPlugin returned: Exec
\* has a value receiver, the call dereferences nil and the process panics
mainExec ==
    /\ prog = "part_007" /\ pc = "loaded"
    /\ newPlugin(env, missing).plugin = "nil"
    /\ pc' = "exited"
    /\ exit' = 2
    /\ UNCHANGED <<execVars, logged, lastExit, variant, p, running, err, tmpAuth, credEnv, ver, prog, env, missing>>

\* preparePlugin, up to the auth key: the defaults
preparePluginDefaults ==
    /\ prog = "preparePlugin" /\ pc = "prepare"
    /\ p' = prepareDefaults(p)
    /\ pc' = "prepareauth"
    /\ UNCHANGED <<execVars, logged, lastExit, variant, running, err, tmpAuth, credEnv, ver, prog, env, missing, exit>>

\* preparePlugin: the inline key is written to a temporary file whose name
\* replaces KeyPath; without a key file preparePlugin returns nil
preparePluginAuthFile ==
    /\ prog = "preparePlugin" /\ pc = "prepareauth"
    /\ IF p.AuthKey # ""
       THEN \E t \in {"ok", "create", "write", "close"} :
              /\ tmpAuth' = (t # "create")
              /\ IF t = "ok"
                 THEN /\ p' = [p EXCEPT !.KeyPath = TmpAuthPath]
                      /\ err' = err
                      /\ pc' = "setupauth"
                 ELSE /\ p' = p
                      /\ err' = prepareErr(t)
                      /\ pc' = "prepared"
       ELSE /\ UNCHANGED <<p, err, tmpAuth>>
            /\ pc' = IF p.KeyPath # "" THEN "setupauth" ELSE "prepared"
    /\ UNCHANGED <<execVars, logged, lastExit, variant, running, credEnv, ver, prog, env, missing, exit>>

\* setupAuth sets GOOGLE_APPLICATION_CREDENTIALS and starts the activation
setupAuthRun ==
    /\ prog = "preparePlugin" /\ pc = "setupauth" /\ running = NoCmd
    /\ credEnv' = p.KeyPath
    /\ running' = authCmd(p.KeyPath)
    /\ logged' = run(p.Debug, logged, running')
    /\ UNCHANGED <<execVars, lastExit, variant, p, pc, err, tmpAuth, ver, prog, env, missing, exit>>

\* the activation exits; setupAuth and preparePlugin return
setupAuthWait ==
    /\ prog = "preparePlugin" /\ pc = "setupauth" /\ running # NoCmd
    /\ running' = NoCmd
    /\ pc' = "prepared"
    /\ \E ok \in BOOLEAN :
         /\ lastExit' = cmdRun(ok)
         /\ err' = IF ok THEN NoErr ELSE prepareErr("auth")
    /\ UNCHANGED <<execVars, logged, variant, p, tmpAuth, credEnv, ver, prog, env, missing, exit>>

NextMain ==
    \/ mainFetchRun
    \/ mainFetchWait
    \/ mainNewPlugin
    \/ mainExec
    \/ preparePluginDefaults
    \/ preparePluginAuthFile
    \/ setupAuthRun
    \/ setupAuthWait

SpecMain == InitMain /\ [][NextMain]_vars

----------------------------------------------------------------------------
(* Properties of the action pipeline. *)

\* the first n elements of the configured action list
ActionsBefore(n) == SubSeq(p.Actions, 1, n)

\* C1: when the handler of the action at position k returns an error, Exec
\* has returned exactly that error value, nothing runs any more, and the
\* handlers invoked are those of positions 1..k and no later one.
C1_FailFast ==
    err.stage = "action" =>
        /\ pc = "done"
        /\ result = Failed(err)
        /\ running = NoCmd
        /\ idx = err.pos
        /\ executed = ActionsBefore(err.pos)

\* a handler in the middle of the list has failed and a recognized action
\* follows it
C1_Witness ==
    /\ err.stage = "action"
    /\ pc = "done"
    /\ err.pos < Len(p.Actions)
    /\ p.Actions[err.pos] = createPkg
    /\ p.Actions[err.pos + 1] = pushPkg

\* C2: an unrecognized action name makes Exec return "unknown action" when
\* the loop reaches it: the actions before it have been executed, none
\* after it is, and Exec never returns nil for a list that holds one.
C2_UnknownAction ==
    /\ err.stage = "dispatch" =>
          /\ pc = "done"
          /\ result = Failed(err)
          /\ err.msg = "unknown action"
          /\ running = NoCmd
          /\ p.Actions[err.pos] \notin knownActions(variant)
          /\ \A k \in 1..(err.pos - 1) : p.Actions[k] \in knownActions(variant)
          /\ executed = ActionsBefore(err.pos - 1)
    /\ \A k \in 1..Len(executed) : executed[k] \in knownActions(variant)
    /\ result = Ok => \A k \in 1..Len(p.Actions) : p.Actions[k] \in knownActions(variant)

\* the unknown name comes after an executed action
C2_Witness ==
    /\ err.stage = "dispatch"
    /\ err.pos = 2
    /\ p.Actions[2] = "frobnicate"
    /\ executed = <<lintPkg>>
    /\ result.kind = "error"

\* C3: the handlers are invoked in the order of the action list, repeated
\* names included, one at a time: a handler is invoked only while no
\* subprocess is running, and every subprocess that runs during the
\* pipeline belongs to the action invoked last.
C3_Order ==
    [][ /\ executed' = ActionsBefore(Len(executed'))
        /\ (executed' # executed =>
               /\ running = NoCmd /\ running' = NoCmd
               /\ executed' = Append(executed, p.Actions[Len(executed) + 1])
               /\ pc # "handler")
        /\ (pc' = "handler" /\ running' # NoCmd =>
               \E n \in 1..3 :
                 running' = handlerCmd(variant, p.Actions[Len(executed')], p, n,
                                       tempFiles'))
      ]_vars

\* the same action twice: the second invocation runs its subprocess after
\* the first has completed
C3_Witness ==
    /\ p.Actions = <<pushPkg, pushPkg>>
    /\ executed = <<pushPkg, pushPkg>>
    /\ running = pushCmd(p)

----------------------------------------------------------------------------
(* Properties of helmInit. *)

\* the order of the client version and the server version that
\* fetchHelmVersions returned, as versions: -1 the client is older, 0 they
\* are equal, 1 the client is newer; 2 when one of them is missing
ClientVsServer ==
    IF newVersion(ver.client) = <<>> \/ newVersion(ver.server) = <<>> THEN 2
    ELSE versionCompare(newVersion(ver.client), newVersion(ver.server))

\* C4: with equal versions helmInit runs `helm init --client-only`, with a
\* newer client `helm init --upgrade`; the command executed is the helm
\* binary with the subcommand init and that one flag.
C4_ModeSelection ==
    ClientVsServer \in {0, 1} =>
        /\ pc = "init"
        /\ option = (IF ClientVsServer = 0 THEN "--client-only" ELSE "--upgrade")
        /\ (running # NoCmd => running = Cmd(helmBin, <<"init", option>>))

\* C5: with a client older than the server helmInit returns an error
\* without an init command and without polling, and Exec returns before
\* any action is executed.
C5_ClientOutOfDate ==
    ClientVsServer = -1 =>
        /\ pc = "done"
        /\ result.kind = "error"
        /\ running = NoCmd
        /\ option = "none"
        /\ executed = <<>>

\* C6: when `helm version` exits with failure, helmInit goes on with the
\* plain `helm init` (no flag), and the failure of an init command is what
\* helmInit and Exec return.
C6_QueryFailureFallsBack ==
    /\ err.stage = "query" =>
          /\ pc = "init"
          /\ option = ""
          /\ (running # NoCmd => running = Cmd(helmBin, <<"init">>))
    /\ err.stage = "init" => pc = "done" /\ result = Failed(err)

\* C7: after `helm init --upgrade` the readiness check runs at most 10
\* times: i checks have failed, and one more may be running.
C7_AtMostTenChecks ==
    pc = "poll" /\ option = "--upgrade" =>
        i + (IF running # NoCmd THEN 1 ELSE 0) <= 10

\* C8: when the polling loop ends with every check failed, helmInit
\* returns an error, Exec returns it, and no action is executed.
C8_PollExhausted ==
    err.stage = "poll" /\ pc # "poll" =>
        /\ pc = "done"
        /\ result.kind = "error"
        /\ result.err.stage = "poll"
        /\ result.err.pos = err.pos
        /\ ~pollAgain(variant, err.pos)
        /\ running = NoCmd
        /\ executed = <<>>

\* every check of the loop of src/plugin.go has failed, with an action
\* configured that is then not executed
C8_Witness ==
    /\ variant = "plugin"
    /\ pc = "done"
    /\ err.stage = "poll"
    /\ err.pos = retries
    /\ result.kind = "error"
    /\ p.Actions = <<lintPkg>>

----------------------------------------------------------------------------
(* Properties of the cluster session setup. *)

\* the fields whose presence asks for the setup
SetupCondition ==
    /\ p.Project # "" /\ p.Cluster # ""
    /\ IF variant \in KeyBased
       THEN p.AuthKey # "" \/ p.KeyPath # ""
       ELSE p.Zone # "" \/ p.Region # ""

\* C9: setupProject and helmInit run only when project and cluster are set
\* with a zone or region (an auth key or key path in the key-based
\* revisions); otherwise no subprocess of theirs runs, no error of theirs
\* is raised, and the actions are executed.
C9_SetupOnlyWhenConfigured ==
    /\ (\/ pc \in {"setup", "fetch", "init", "poll"}
        \/ err.stage \in {"setup", "query", "fetch", "compare", "init", "poll"}
        \/ tmpAuth \/ credEnv # "" \/ authFile # "" \/ option # "none")
          => SetupCondition
    /\ ~SetupCondition /\ running # NoCmd => pc = "handler"
    /\ ~SetupCondition /\ pc = "done" =>
          \/ result = Ok /\ executed = p.Actions
          \/ result.kind = "error" /\ err.stage \in {"action", "dispatch"}

\* project and zone are set but the cluster is not: the action has been
\* executed and Exec has returned nil
C9_Witness ==
    /\ p.Project # "" /\ p.Zone # "" /\ p.Cluster = ""
    /\ pc = "done"
    /\ result = Ok
    /\ executed = <<deployPkg>>

\* the kinds of gcloud calls of the setup, in the claimed order; the
\* revisions that are not key-based authorize before Exec
SetupOrder ==
    IF variant \in KeyBased THEN <<"auth", "config", "container">>
    ELSE <<"config", "container">>

\* C10: setupProject runs activate-service-account, then config set
\* project, then container clusters get-credentials; the first failure
\* ends the setup: no later call, no helm init, no action, and Exec returns
\* the error.
C10_SetupOrder ==
    /\ [](/\ (pc = "setup" /\ running # NoCmd =>
                /\ running.bin = gcloudBin
                /\ running.args[1] = SetupOrder[sub])
          /\ (err.stage = "setup" =>
                /\ pc = "done"
                /\ result = Failed(err)
                /\ running = NoCmd
                /\ sub = err.pos
                /\ option = "none"
                /\ executed = <<>>))
    /\ [][pc = "setup" /\ sub' # sub =>
            \/ sub' = sub + 1 /\ pc' = "setup" /\ sub' <= Len(SetupOrder)
            \/ sub' = 0 /\ pc' # "setup" /\ sub = Len(SetupOrder)]_vars

\* the project call has failed after a successful authorization, with an
\* action configured
C10_Witness ==
    /\ variant \in {"plugin", "part_002"}
    /\ err.stage = "setup"
    /\ err.pos = 2
    /\ pc = "done"
    /\ p.Actions = <<lintPkg>>

\* C11: the get-credentials call uses --region with the region whenever
\* Region is set (also when Zone is set), and --zone with the zone
\* otherwise.
C11_RegionOverride ==
    pc = "setup" /\ running # NoCmd /\ running.args[1] = "container" =>
        running = Cmd(gcloudBin,
                      <<"container", "clusters", "get-credentials", p.Cluster>>
                      \o (IF p.Region # "" THEN <<"--region", p.Region>>
                          ELSE <<"--zone", p.Zone>>))

\* zone and region are both set and the call with the region is running
C11_Witness ==
    /\ p.Zone = "z1" /\ p.Region = "r1"
    /\ pc = "setup"
    /\ running = Cmd(gcloudBin, <<"container", "clusters", "get-credentials",
                                  p.Cluster, "--region", "r1">>)

----------------------------------------------------------------------------
(* Properties of the version handling of helmInit. *)

\* C12: the comparison of helmInit's switch orders the two versions as
\* semantic versions (numerically, component by component).
C12_SemanticOrder ==
    ClientVsServer # 2 => compareVersions(variant, ver) = ClientVsServer

\* C13: when `helm version` succeeds but its output cannot be parsed,
\* helmInit returns an error and runs no init; the plain init is run only
\* after a failed version query.
C13_ParseFailureFatal ==
    /\ err.stage = "fetch" =>
          /\ pc = "done"
          /\ result.kind = "error"
          /\ running = NoCmd
          /\ option = "none"
    /\ pc = "init" /\ option = "" => err.stage = "query"

----------------------------------------------------------------------------
(* Properties of the credential file and its environment variable. *)

\* C15: when the run has ended, the temporary file that holds the inline
\* key does not exist any more.
C15_TempKeyRemoved ==
    pc = "done" => ~tmpAuth

----------------------------------------------------------------------------
(* Properties of the secret files of deploy. *)

----------------------------------------------------------------------------
(* Claims on the main programs and on preparePlugin (SpecMain). *)

\* the programs that have a main
Mains == {"main.go", "part_007"}

\* C17: the inline key is written to a temporary file only when an inline
\* key is supplied and no key file path is; a supplied key file path is the
\* file of the service-account activation and no temporary file is created.
C17_TempOnlyWithoutKeyPath ==
    /\ tmpAuth => env.AuthKey # "" /\ env.KeyPath = ""
    /\ running # NoCmd /\ env.KeyPath # "" => running = authCmd(env.KeyPath)

\* C18: when the configuration loads, main calls Exec on it: a main that
\* has ended after a successful load has a result of Exec.
C18_ExecInvoked ==
    prog \in Mains /\ missing = {} /\ pc = "exited" => result # NoResult

\* C19: when a required variable is missing no command is ever started and
\* the process ends with a failure status.
C19_ConfigErrorBeforeCommands ==
    prog \in Mains /\ missing # {} =>
        /\ running = NoCmd
        /\ ver = NoVer
        /\ pc = "exited" => exit = 1

\* C20: the process exits with status zero only if Exec has returned nil,
\* and a configuration error ends it with a non-zero status.
C20_ZeroOnlyOnSuccess ==
    prog \in Mains =>
        /\ pc = "exited" /\ exit = 0 => result = Ok
        /\ pc = "exited" /\ missing # {} => exit # 0

----------------------------------------------------------------------------
(* Claims on the artifact name. *)

\* <package>-<version>.tgz for the configuration of the run
Artifact == <<p.Package, "-", p.ChartVersion, ".tgz">>

\* the object `gsutil cp <file> gs://<bucket>` writes for the arguments of a
\* push: the destination bucket, "/", and the name of the source file
pushedObject(args) == SubSeq(args, 6, 7) \o <<"/">> \o SubSeq(args, 2, 5)

\* C21: the source of push, the local destination of pull and the chart
\* argument of deploy are exactly <package>-<version>.tgz, and the object
\* pull reads is the object a push with the same configuration writes.
C21_ArtifactName ==
    running # NoCmd /\ pc = "handler" =>
        LET a == currentAction(p, idx)
        IN  /\ a = pushPkg =>
                  /\ Len(running.args) = 7
                  /\ SubSeq(running.args, 2, 5) = Artifact
            /\ a = pullPkg =>
                  /\ Len(running.args) = 12
                  /\ SubSeq(running.args, 9, 12) = Artifact
                  /\ SubSeq(running.args, 2, 8) = pushedObject(pushCmd(p).args)
            /\ a = deployPkg /\ running.bin = "/bin/sh" /\ running.args[3] = "upgrade" =>
                  SubSeq(running.args, 5, 8) = Artifact

\* a pull is running after a push of the same run
C21_Witness ==
    /\ executed = <<pushPkg, pullPkg>>
    /\ running = pullCmd(p)
    /\ p.Release # p.Package

----------------------------------------------------------------------------
(* Claims on the namespace. *)

\* C22: deploy issues the create-namespace call only when the namespace is
\* absent: never for a namespace that exists, and never in a deploy that
\* follows a deploy of the same run that has returned nil.
C22_NamespaceIdempotent ==
    running = createNSCmd(p) =>
        /\ ~nsExists
        /\ \A k \in 1..(idx - 1) : p.Actions[k] # deployPkg

\* the second of two deploys runs its helm upgrade with the namespace the
\* first one has found or created
C22_Witness ==
    /\ p.Actions = <<deployPkg, deployPkg>>
    /\ idx = 2
    /\ pc = "handler"
    /\ sub = 3
    /\ running # NoCmd
    /\ nsExists

----------------------------------------------------------------------------
(* Claims on the set of actions. *)

\* whether the word w is an argument of the command
HasArg(cmd, w) == \E k \in 1..Len(cmd.args) : cmd.args[k] = w

\* the names the dispatch of a revision accepts
Accepted(v) ==
    {"lint", "create", "push", "pull", "deploy"}
    \cup (IF v \in {"part_003a", "part_004", "part_005", "part_006"} THEN {"test"} ELSE {})
    \cup (IF v = "part_004" THEN {"dep"} ELSE {})

\* whether the command belongs to the handler of the action named a
OwnCommand(a, cmd) ==
    CASE a = "lint" -> HasArg(cmd, "lint")
      [] a = "create" -> HasArg(cmd, "package")
      [] a = "push" -> cmd.bin = gsutilBin /\ cmd.args[Len(cmd.args) - 1] = "gs://"
      [] a = "pull" -> cmd.bin = gsutilBin /\ cmd.args[2] = "gs://"
      [] a = "deploy" -> cmd.bin = kubectlBin \/ HasArg(cmd, "upgrade")
      [] a = "test" -> HasArg(cmd, "test")
      [] a = "dep" -> HasArg(cmd, "repo") \/ HasArg(cmd, "dependency")
      [] OTHER -> FALSE

\* C23 as stated: each of lint, create, push, pull, deploy, test and
\* dependency-update is accepted by the dispatch, so that "unknown action"
\* is returned only for a name outside this set.
C23_SevenNamesAccepted ==
    err.stage = "dispatch" =>
        currentAction(p, idx) \notin {"lint", "create", "push", "pull", "deploy",
                                      "test", "dependency-update"}

\* C23: the dispatch accepts lint, create, push, pull and deploy in every
\* revision, test in the revisions that have testPackage, and the
\* dependency action, whose name is dep, in the revision that has
\* dependencyUpdate; an accepted name runs the commands of its own handler
\* and every other name produces the "unknown action" failure.
C23_Dispatch ==
    /\ pc = "handler" =>
          /\ currentAction(p, idx) \in Accepted(variant)
          /\ running # NoCmd => OwnCommand(currentAction(p, idx), running)
    /\ err.stage = "dispatch" =>
          /\ currentAction(p, idx) \notin Accepted(variant)
          /\ err.msg = "unknown action"
    /\ pc = "pipeline" /\ idx > 1 => p.Actions[idx - 1] \in Accepted(variant)

\* dep has run its handler and dependency-update is refused
C23_Witness ==
    /\ variant = "part_004"
    /\ p.Actions = <<"dep", "dependency-update">>
    /\ executed = <<"dep">>
    /\ err.stage = "dispatch"
    /\ result.kind = "error"

----------------------------------------------------------------------------
(* Claims on the defaults of the configuration. *)

RECURSIVE FinalSegment(_)
\* the final segment of a path: the name after its last separator, a
\* trailing separator apart
FinalSegment(path) ==
    IF Len(path) = 0 THEN ""
    ELSE IF path[Len(path)] # "" THEN path[Len(path)]
    ELSE FinalSegment(SubSeq(path, 1, Len(path) - 1))

\* C24: when Package is unset the derived package name is the final segment
\* of the chart path, and it is not empty when the chart path names a
\* directory, a path written with a trailing slash included.
C24_PackageFromChartPath ==
    prog = "preparePlugin" /\ pc # "prepare" /\ env.Package = "" =>
        /\ p.Package = FinalSegment(env.ChartPath)
        /\ p.Package # ""

\* C25: an unset Release defaults to exactly the package name, explicit or
\* derived; an explicit Release is kept; and neither Release nor Package
\* changes after the preparation: the deploy and the test of the run name
\* this release, and deploy names the archive of this package.
C25_ReleaseDefault ==
    /\ [](prog = "Exec" /\ env.Release = "" => p.Release = p.Package)
    /\ [](prog = "Exec" /\ env.Release # "" => p.Release = env.Release)
    /\ [](prog = "Exec" /\ env.Package # "" => p.Package = env.Package)
    /\ [][p'.Release = p.Release /\ p'.Package = p.Package]_vars
    /\ [](/\ pc = "handler" /\ running.bin = "/bin/sh"
          /\ currentAction(p, idx) \in {deployPkg, testPkg}
          => /\ running.args[4] = (IF env.Release = "" THEN p.Package ELSE env.Release)
             /\ currentAction(p, idx) = deployPkg => running.args[5] = p.Package)

\* a deploy runs with a release name defaulted to a derived package name
C25_Witness ==
    /\ env.Release = "" /\ env.Package = ""
    /\ pc = "handler"
    /\ currentAction(p, idx) = deployPkg
    /\ running.bin = "/bin/sh"
    /\ running.args[4] = "foo"

\* C26: when ChartRepo is unset and a bucket b is given, the derived
\* ChartRepo is https://{b}.storage.googleapis.com/ (without a bucket it
\* stays unset), and a ChartRepo given explicitly is never overwritten.
C26_ChartRepoFromBucket ==
    prog = "preparePlugin" /\ pc # "prepare" =>
        /\ env.ChartRepo # <<>> => p.ChartRepo = env.ChartRepo
        /\ env.ChartRepo = <<>> /\ env.Bucket # "" =>
              p.ChartRepo = <<"https://", env.Bucket, ".storage.googleapis.com/">>
        /\ env.ChartRepo = <<>> /\ env.Bucket = "" => p.ChartRepo = <<>>

\* preparePlugin has returned with a ChartRepo derived from the bucket
C26_Witness ==
    /\ prog = "preparePlugin" /\ pc = "prepared"
    /\ env.ChartRepo = <<>> /\ env.Bucket = "b2"
    /\ p.ChartRepo # <<>>

----------------------------------------------------------------------------
(* Claims on the log. *)

\* C27: the setup never writes the inline key to the log: with debug on,
\* no logged command line holds the content of the key, and the line of the
\* service-account activation names the credential file by its path.
C27_KeyNotLogged ==
    \A line \in logged :
        /\ \A k \in 1..Len(line) : p.AuthKey = "" \/ line[k] # p.AuthKey
        /\ Len(line) > 1 /\ line[2] = "auth" =>
              line = <<gcloudBin, "auth", "activate-service-account", "--key-file=", authFile>>

\* with debug on and an inline key, the activation has been logged
C27_Witness ==
    /\ p.Debug /\ p.AuthKey # "" /\ tmpAuth
    /\ \E line \in logged : Len(line) > 1 /\ line[2] = "auth"
    /\ pc = "pipeline"

----------------------------------------------------------------------------
(* Claims on the readiness polling and on the errors of commands. *)

\* C28: the readiness of Tiller is polled only on the upgrade path, not
\* after a client-only or a plain init, and only once the upgrade init has
\* succeeded.
C28_PollOnlyOnUpgrade ==
    /\ pc = "poll" => option = "--upgrade"
    /\ pc = "poll" /\ i = 0 => err = NoErr

\* C29: a failure of a command that makes the run fail is returned wrapped
\* with a context that names the stage: the returned error carries a text
\* of the program, not the bare error of the command.
C29_StageContext ==
    result.kind = "error" /\ result.err.stage \in {"setup", "init", "poll", "action"}
        => result.err.msg # ""

\* C30: no failure of a command is swallowed: when a command started during
\* Exec exits with a failure, the version query and a readiness check that
\* is not the last one apart, Exec returns an error.
C30_NoFailureSwallowed ==
    [][/\ running # NoCmd /\ running' = NoCmd
       /\ lastExit' = "fail"
       /\ pc # "fetch"
       /\ ~(pc = "poll" /\ pc' = "poll")
       => /\ pc' = "done"
          /\ result'.kind = "error"
          /\ result'.err # NoErr]_vars

\* the namespace query of a deploy has failed and Exec has returned the error
C30_Witness ==
    /\ variant = "part_004"
    /\ pc = "done"
    /\ lastExit = "fail"
    /\ idx <= Len(p.Actions)
    /\ currentAction(p, idx) = deployPkg /\ sub = 1
    /\ result.kind = "error" /\ result.err.stage = "action"

----------------------------------------------------------------------------
(* Claims on the steps of deploy and of the dependency action. *)

\* the handler of the revision with createNamespace is at its deploy
InDeploy ==
    /\ variant = "part_004" /\ pc = "handler"
    /\ currentAction(p, idx) = deployPkg

\* C31: deploy runs the namespace query, then the create-namespace call
\* (only when the query found none), then helm upgrade --install; when the
\* query or the creation fails the upgrade is never run and deploy returns
\* an error.
C31_DeployOrder ==
    /\ [][InDeploy /\ running = NoCmd /\ running' # NoCmd =>
            /\ lastExit = "fail" => FALSE
            /\ running' = checkNSCmd(p) <=> sub = 1
            /\ running' = createNSCmd(p) <=> sub = 2
            /\ HasArg(running', "upgrade") <=> sub = 3
            /\ sub = 2 => ~nsExists
            /\ sub = 3 => nsExists]_vars
    /\ [][InDeploy /\ sub' # sub => sub' > sub \/ sub' = 0]_vars
    /\ [][InDeploy /\ running # NoCmd /\ sub < 3 /\ lastExit' = "fail" =>
            /\ pc' = "done"
            /\ result'.kind = "error"
            /\ result'.err.msg = "could not create namespace"]_vars

\* the creation of the namespace has failed and Exec has returned the error
\* without an upgrade
C31_Witness ==
    /\ variant = "part_004"
    /\ pc = "done"
    /\ idx <= Len(p.Actions)
    /\ currentAction(p, idx) = deployPkg /\ sub = 2
    /\ lastExit = "fail" /\ ~nsExists
    /\ result.kind = "error"

\* the handler of the dependency action is running
InDependency ==
    /\ pc = "handler"
    /\ currentAction(p, idx) = dependencyPkg

\* C32: the dependency action runs, in this order, the add of the stable
\* repository, the update of the repositories and the update of the chart's
\* dependencies; a failure of a step prevents the later steps and fails the
\* action; and the action run again after a success issues the same three
\* commands.
C32_DependencySteps ==
    /\ [][InDependency /\ running = NoCmd /\ running' # NoCmd =>
            /\ sub \in 1..3
            /\ sub = 1 => running' = Cmd(helmBin, <<"repo", "add", "stable">>)
            /\ sub = 2 => running' = Cmd(helmBin, <<"repo", "update">>)
            /\ sub = 3 => running' = Cmd(helmBin, <<"dependency", "update", p.ChartPath>>)]_vars
    /\ [][InDependency /\ running # NoCmd /\ lastExit' = "fail" =>
            /\ pc' = "done"
            /\ result'.kind = "error" /\ result'.err # NoErr]_vars
    /\ [][InDependency /\ running # NoCmd /\ lastExit' = "ok" =>
            IF sub < 3 THEN pc' = "handler" /\ sub' = sub + 1 /\ idx' = idx
            ELSE pc' = "pipeline" /\ idx' = idx + 1]_vars

\* the second dependency action of a run resolves the dependencies
C32_Witness ==
    /\ p.Actions = <<dependencyPkg, dependencyPkg>>
    /\ idx = 2 /\ pc = "handler" /\ sub = 3
    /\ running = dependencyUpdateCmd(p)

----------------------------------------------------------------------------
(* Claims on the control flow of Exec. *)

\* the position of a stage in the control flow of Exec
Rank(stage) ==
    CASE stage = "entry" -> 0
      [] stage = "setup" -> 1
      [] stage = "fetch" -> 2
      [] stage = "init" -> 3
      [] stage = "poll" -> 4
      [] stage \in {"pipeline", "handler"} -> 5
      [] stage = "done" -> 6

\* C33: when the setup condition holds no action starts before the cluster
\* session setup and (in the revisions that initialize Tiller) the
\* initialization have both ended with success, and setup and
\* initialization each run at most once in an Exec.
C33_SetupBeforeActions ==
    /\ [][SetupCondition /\ Rank(pc) < 5 /\ Rank(pc') = 5 =>
            /\ running # NoCmd /\ lastExit' = "ok"
            /\ result' = NoResult
            /\ IF variant \in WithHelmInit THEN pc \in {"init", "poll"}
               ELSE pc = "setup" /\ sub = Len(setupCmds(variant, p, authFile))
            /\ executed = <<>>]_vars
    /\ [](executed # <<>> => Rank(pc) >= 5)
    /\ [][Rank(pc') >= Rank(pc)]_vars
    /\ [][pc = "setup" /\ pc' = "setup" /\ sub' # sub => sub' = sub + 1]_vars
    /\ [][pc = "init" /\ running # NoCmd => pc' # "init"]_vars
    /\ [][running # NoCmd /\ pc \in {"setup", "init"} /\ lastExit' = "fail" =>
            pc' = "done" /\ result'.kind = "error"]_vars

\* an action runs after the setup and the initialization of the run
C33_Witness ==
    /\ SetupCondition /\ variant \in WithHelmInit
    /\ pc = "handler" /\ running # NoCmd
    /\ executed # <<>>

----------------------------------------------------------------------------
(* Claim on the configuration the actions of one run read. *)

\* the configuration prepared at the start of Exec
Prepared == prepareDefaults(env)

\* the --set argument a deploy of the prepared configuration carries: the
\* prepared values, and the namespace= entry where deploy appends one
PreparedSet ==
    <<"--set">>
    \o stringsJoin(IF variant \in KeyBased
                   THEN Append(Prepared.Values, <<"namespace=", Prepared.Namespace>>)
                   ELSE Prepared.Values)

\* C34: no action modifies the configuration later actions see: the values
\* list, release, package, version and namespace every action reads are the
\* ones prepared at startup, and a deploy repeated in the same action list
\* builds the command of the first one, with one namespace= entry at most.
C34_ConfigurationKept ==
    /\ [][p' = p]_vars
    /\ [](/\ p.Values = Prepared.Values /\ p.Release = Prepared.Release
          /\ p.Package = Prepared.Package
          /\ p.ChartVersion = Prepared.ChartVersion
          /\ p.Namespace = Prepared.Namespace)
    /\ [](pc = "handler" /\ running # NoCmd /\ HasArg(running, "upgrade") =>
            /\ running = handlerCmd(variant, deployPkg, Prepared, sub, tempFiles)
            /\ SubSeq(running.args, 9, 8 + Len(PreparedSet)) = PreparedSet
            /\ running.args[9 + Len(PreparedSet)] # ",")

\* the second deploy of an action list runs its helm upgrade in a revision
\* whose deploy appends the namespace= entry
C34_Witness ==
    /\ variant \in KeyBased
    /\ p.Actions = <<deployPkg, deployPkg>>
    /\ pc = "handler" /\ idx = 2
    /\ HasArg(running, "upgrade")
    /\ SubSeq(running.args, 9, 13) = <<"--set", "a=b", ",", "namespace=", "default">>
    /\ running.args[14] = "--install"

----------------------------------------------------------------------------
(* Claims on the totality and the result of fetchHelmVersions. *)

\* C35: fetchHelmVersions is total over the outputs of a successful `helm
\* version`: whatever the command printed, it returns a version record or
\* an error, and the process does not crash.
C35_FetchTotal ==
    [][running # NoCmd /\ pc = "fetch" /\ lastExit' = "ok" =>
          /\ result'.kind # "panic"
          /\ pc' = "init" \/ (pc' = "done" /\ result'.kind = "error")]_vars

\* C36: whenever fetchHelmVersions returns successfully its record holds a
\* client version and a server version, so helmInit selects no branch by
\* comparing against a missing version; two matching lines of the same
\* realm do not lead to the upgrade.
C36_BothVersions ==
    [][running # NoCmd /\ pc = "fetch" /\ lastExit' = "ok"
       /\ result'.kind # "panic" /\ err'.stage \notin {"query", "fetch"} =>
          ver'.client # <<>> /\ ver'.server # <<>>]_vars

----------------------------------------------------------------------------
(* Claim on the termination of Exec. *)

\* C37: provided every subprocess terminates, Exec terminates for every
\* action list and every pattern of subprocess successes and failures: it
\* eventually returns success or an error.
C37_ExecReturns == <>(pc = "done" /\ result.kind \in {"ok", "error"})

====
